---- MODULE Spec2Model ----
(***************************************************************************)
(* Model of the quiz controller of ai-quizzer (generateQuiz, submitQuiz,   *)
(* getQuizHistory, getHint) over the PostgreSQL schema it writes to, and   *)
(* of its authentication: the auth controller, the token middleware and    *)
(* the rate limiter of the auth routes.                                    *)
(*                                                                         *)
(* Identifiers: a well-formed UUID is modelled as a positive integer, a    *)
(* path or body value that is not UUID syntax as MalformedId.  Numbers of  *)
(* type DECIMAL(5,2) are modelled as integers counting hundredths.         *)
(***************************************************************************)
EXTENDS Integers, Sequences, FiniteSets, Bags, TLC

(***************************************************************************)
(* Bounds of the model.                                                    *)
(***************************************************************************)
MaxAnswers == 2
MaxTime == 1
MaxSteps == 3
MaxRateSteps == 9
MaxRateTime == 2
MaxAuthSteps == 6
MaxRaceSteps == 6

(***************************************************************************)
(* Fixed data.                                                             *)
(***************************************************************************)
Users == {"john_doe", "jane_smith"}

\* the users who send generateQuiz requests
Authors == {"john_doe"}

MalformedId == 0 - 1
NoSuchId == 99

IsUuid(x) == x > 0

subjects ==
  { [id |-> "sub-math", name |-> "Mathematics"],
    [id |-> "sub-sci", name |-> "Science"] }

NULL == "NULL"

\* the first quiz of database/seed.sql with its questions and options
SeedQuizzes ==
  { [id |-> 1, subject_id |-> "sub-math", grade_level |-> 9,
     difficulty_level |-> "medium", total_questions |-> 2, total_marks |-> 10,
     created_by |-> NULL] }

SeedQuestions ==
  { [id |-> 2, quiz_id |-> 1,
     question_text |-> "What is the value of x in the equation 2x + 5 = 15?",
     difficulty_level |-> "medium", marks |-> 5],
    [id |-> 3, quiz_id |-> 1,
     question_text |-> "Simplify the expression: 3(x + 2) - 2x",
     difficulty_level |-> "medium", marks |-> 5] }

SeedOption(q, t, c, i) ==
  [question_id |-> q, option_text |-> t, is_correct |-> c, order_index |-> i]

SeedAnswerOptions ==
  { SeedOption(2, "x = 5", TRUE, 1), SeedOption(2, "x = 10", FALSE, 2),
    SeedOption(2, "x = 3", FALSE, 3), SeedOption(2, "x = 7", FALSE, 4),
    SeedOption(3, "x + 6", TRUE, 1), SeedOption(3, "5x + 6", FALSE, 2),
    SeedOption(3, "x + 2", FALSE, 3), SeedOption(3, "3x + 4", FALSE, 4) }

FirstFreeId == 4

VARIABLES quizzes, questions, answer_options, quiz_submissions,
          nextId, now, steps, req, resp, aiCall,
          users, user_sessions, redis, held, revoked, inflight, attempts,
          passed, leaderboard, config, redisClient, server

vars == <<quizzes, questions, answer_options, quiz_submissions,
          nextId, now, steps, req, resp, aiCall,
          users, user_sessions, redis, held, revoked, inflight, attempts,
          passed, leaderboard, config, redisClient, server>>

\* the tables and keys of authentication; the tokens clients were given and
\* those a successful logout was to invalidate; the requests suspended at a
\* query; the rate limiters' maps and the requests they let through
auth == <<users, user_sessions, redis, held, revoked, inflight>>
limiter == <<attempts, passed>>

store == <<quizzes, questions, answer_options, quiz_submissions, leaderboard>>

\* what the process was started with and runs against: the token lifetimes
\* of its configuration, the state of its Redis client, and whether the
\* HTTP server is listening
environment == <<config, redisClient, server>>

\* the call to the text-generation service made by the last request
NoCall == [kind |-> "none"]

(***************************************************************************)
(* DECIMAL(5,2): rounding to two decimals (half away from zero) and the    *)
(* range check of the column.  Values are in hundredths.                   *)
(***************************************************************************)
Abs(x) == IF x < 0 THEN 0 - x ELSE x

RoundDiv(a, b) ==
  LET q == (2 * Abs(a) + Abs(b)) \div (2 * Abs(b))
  IN  IF (a < 0) = (b < 0) THEN q ELSE 0 - q

Decimal52Fits(h) == Abs(h) < 100000

NaN == [nan |-> TRUE, inf |-> FALSE, h |-> 0]
Infinity == [nan |-> FALSE, inf |-> TRUE, h |-> 0]
Num(h) == [nan |-> FALSE, inf |-> FALSE, h |-> h]

\* variant: the quotient cut to two decimals instead of rounded
Percentage_Truncated(score, total) ==
  IF total = 0
    THEN IF score = 0 THEN NaN ELSE Infinity
    ELSE Num((score * 10000) \div total)

\* (score / quiz.total_questions) * 100 as the DECIMAL(5,2) column will hold it
Percentage(score, total) ==
  IF total = 0
    THEN IF score = 0 THEN NaN ELSE Infinity
    ELSE Num(RoundDiv(score * 10000, total))

(***************************************************************************)
(* submitQuiz: the scoring loop.                                           *)
(***************************************************************************)
QuestionById(qid) == {q \in questions : q.id = qid}

OptionsOf(qid) == {o \in answer_options : o.question_id = qid}

CorrectOptions(qid) == {o \in OptionsOf(qid) : o.is_correct}

CorrectTexts(qid) == {o.option_text : o \in CorrectOptions(qid)}

\* optionsResult.rows.find(o => o.is_correct): the row order of a SELECT
\* without ORDER BY is not fixed, so the option found is any correct one.
\* FindChoices is every way to pick one per question that has any.
RECURSIVE FindChoicesOver(_)
FindChoicesOver(qids) ==
  IF qids = {}
    THEN {<<>>}
    ELSE LET qid == CHOOSE x \in qids : TRUE
         IN  {(qid :> t) @@ f : t \in CorrectTexts(qid),
                                f \in FindChoicesOver(qids \ {qid})}

FindChoices ==
  FindChoicesOver({q.id : q \in {x \in questions : CorrectOptions(x.id) # {}}})

\* variant: comparison after trimming and lower-casing
Normalize(t) ==
  CASE t = "X + 6" -> "x + 6"
    [] t = "x = 5 " -> "x = 5"
    [] OTHER -> t

IsCorrect_Normalized(userAnswer, correctAnswer) ==
  Normalize(userAnswer) = Normalize(correctAnswer)

\* line 100: userAnswer === correctAnswer
IsCorrect(userAnswer, correctAnswer) == userAnswer = correctAnswer

MarksOf(qid) ==
  IF QuestionById(qid) = {} THEN 0
  ELSE (CHOOSE q \in QuestionById(qid) : TRUE).marks

\* variant: the question's marks are added
ScoreIncrement_Marks(qid) == MarksOf(qid)

\* line 101: score++
ScoreIncrement(qid) == 1

\* variant: find(...)?.option_text, which yields undefined instead of throwing
LookupCorrect_Optional(find, qid) ==
  IF ~IsUuid(qid)
    THEN [threw |-> TRUE, option_text |-> ""]
    ELSE IF CorrectOptions(qid) = {}
      THEN [threw |-> FALSE, option_text |-> "undefined"]
      ELSE [threw |-> FALSE, option_text |-> find[qid]]

\* lines 94-98: the two SELECTs and find(...).option_text, which throws when
\* the id is not UUID syntax (query error) or no row is flagged correct
LookupCorrect(find, qid) ==
  IF ~IsUuid(qid) \/ CorrectOptions(qid) = {}
    THEN [threw |-> TRUE, option_text |-> ""]
    ELSE [threw |-> FALSE, option_text |-> find[qid]]

Threw(score, incorrect) ==
  [err |-> TRUE, score |-> score, incorrectAnswers |-> incorrect]

RECURSIVE ScoreLoop(_, _, _, _)
ScoreLoop(answers, find, score, incorrect) ==
  IF answers = <<>>
    THEN [err |-> FALSE, score |-> score, incorrectAnswers |-> incorrect]
    ELSE
      LET a == Head(answers)
          found == LookupCorrect(find, a.questionId)
      IN  IF found.threw
            THEN Threw(score, incorrect)
            ELSE IF IsCorrect(a.answer, found.option_text)
              THEN ScoreLoop(Tail(answers), find,
                     score + ScoreIncrement(a.questionId), incorrect)
              ELSE IF QuestionById(a.questionId) = {}
                THEN Threw(score, incorrect)
                ELSE
                  LET question == CHOOSE q \in QuestionById(a.questionId) : TRUE
                  IN  ScoreLoop(Tail(answers), find, score,
                        Append(incorrect,
                          [question |-> question.question_text,
                           userAnswer |-> a.answer,
                           correctAnswer |-> found.option_text]))

\* text.split('\n').filter(tip => tip.length > 0); the reply text is held
\* as the sequence of its newline-separated segments
ImprovementTips(text) == SelectSeq(text, LAMBDA tip : tip # "")

(***************************************************************************)
(* Inputs of submitQuiz.                                                   *)
(***************************************************************************)
Missing == [t |-> "undefined", a |-> <<>>]
NotArray == [t |-> "object", a |-> <<>>]
Array(a) == [t |-> "array", a |-> a]

\* !answers || !Array.isArray(answers)
InvalidAnswers(answers) == answers.t = "undefined" \/ answers.t # "array"

Item(q, t) == [questionId |-> q, answer |-> t]

GeneratedQuestions == {q \in questions : q.id >= FirstFreeId}

\* answers to the seed questions: the correct text of question 2, and the
\* correct text of question 3 in another case
SeedItems == { Item(2, "x = 5"), Item(3, "X + 6") }

\* the first option of a generated question
GeneratedItems == {Item(q.id, "A") : q \in GeneratedQuestions}

SeqsUpTo(S, n) == UNION {[1..k -> S] : k \in 0..n}

\* every array of seed answers, and the arrays that end with an answer to a
\* generated question after correct answers to question 2
Arrays ==
  {Array(a) : a \in SeqsUpTo(SeedItems, MaxAnswers)}
  \cup {Array(Append(a, g)) : a \in SeqsUpTo({Item(2, "x = 5")}, MaxAnswers - 1),
                              g \in GeneratedItems}

SubmitInput(quizId, answers) == [quizId |-> quizId, answers |-> answers]

\* requests to a stored quiz with any answer array; requests whose quiz id
\* is unknown or not a UUID; requests whose answers field is not an array;
\* answers naming an unknown or malformed question id; an answer that
\* differs from the correct text by a trailing blank
SubmitInputs ==
  {SubmitInput(q.id, a) : q \in quizzes, a \in Arrays}
  \cup {SubmitInput(id, Array(<<>>)) : id \in {NoSuchId, MalformedId}}
  \cup {SubmitInput(id, a) : id \in {1, NoSuchId}, a \in {Missing, NotArray}}
  \cup {SubmitInput(1, Array(<<Item(q, "x = 5")>>)) : q \in {NoSuchId, MalformedId}}
  \cup {SubmitInput(1, Array(<<Item(2, "x = 5 ")>>))}

\* outcome of model.generateContent for the feedback prompt
AIFailed == [ok |-> FALSE, text |-> <<>>]
AIText(t) == [ok |-> TRUE, text |-> t]

\* a reply whose text has an empty line between two tips
Tips == AIText(<<"Review linear equations.", "", "Practise factoring.">>)

\* a reply of three lines
ThreeTips == AIText(<<"Review linear equations.", "Practise factoring.",
                      "Check each step.">>)

\* the same correct answer to question 2 three times over
Repeated == Array(<<Item(2, "x = 5"), Item(2, "x = 5"), Item(2, "x = 5")>>)

SubmitCase(userId, in, ai) ==
  [user |-> userId, quizId |-> in.quizId, answers |-> in.answers, ai |-> ai]

\* every input sent by john_doe and answered by the feedback call; two of
\* them with the feedback call failing; one answered by a reply of three
\* lines; one submission by jane_smith; one whose answers repeat a question
SubmitCases ==
  {SubmitCase("john_doe", in, Tips) : in \in SubmitInputs}
  \cup {SubmitCase("john_doe", SubmitInput(1, Array(a)), AIFailed) :
          a \in {<<>>, <<Item(2, "x = 5")>>}}
  \cup {SubmitCase("jane_smith", SubmitInput(1, Array(<<Item(2, "x = 5")>>)), Tips)}
  \cup {SubmitCase("john_doe", SubmitInput(1, Array(<<Item(2, "x = 5")>>)), ThreeTips)}
  \cup {SubmitCase("john_doe", SubmitInput(1, Repeated), Tips)}

(***************************************************************************)
(* INSERT INTO quiz_submissions (lines 117-120) under the table's column   *)
(* types, defaults and UNIQUE(user_id, quiz_id, attempt_number).           *)
(***************************************************************************)
SubmissionRow(quizId, userId, score, percentage, tips) ==
  [id |-> nextId, user_id |-> userId, quiz_id |-> quizId, attempt_number |-> 1,
   status |-> "completed", completed_at |-> now,
   total_score |-> score * 100, percentage |-> percentage,
   improvement_suggestions |-> tips]

\* the table without its UNIQUE constraint
InsertSubmissionFails_NoUnique(row) ==
  \/ row.percentage.inf
  \/ ~Decimal52Fits(row.percentage.h)
  \/ ~Decimal52Fits(row.total_score)

InsertSubmissionFails(row) ==
  \/ row.percentage.inf
  \/ ~Decimal52Fits(row.percentage.h)
  \/ ~Decimal52Fits(row.total_score)
  \/ \E s \in quiz_submissions :
       /\ s.user_id = row.user_id
       /\ s.quiz_id = row.quiz_id
       /\ s.attempt_number = row.attempt_number

(***************************************************************************)
(* The leaderboard table and the trigger that maintains it (schema lines   *)
(* 128-140 and 213-272).  update_leaderboard_on_completion is an AFTER     *)
(* UPDATE OF status row trigger of quiz_submissions with the condition     *)
(* NEW.status = 'completed' AND OLD.status != 'completed'.                 *)
(***************************************************************************)
Fires(event, oldRow, newRow) ==
  /\ event = "UPDATE OF status"
  /\ newRow.status = "completed"
  /\ oldRow.status # "completed"

RECURSIVE SumOf(_, _)
SumOf(rows, column) ==
  IF rows = {} THEN 0
  ELSE LET r == CHOOSE x \in rows : TRUE
       IN  column[r] + SumOf(rows \ {r}, column)

MaxOf(values) == CHOOSE v \in values : \A w \in values : w <= v

\* the rows the SELECT of lines 219-233 aggregates: the completed
\* submissions of newRow.user_id on quizzes of the subject and grade of
\* newRow.quiz_id
CompletedOf(subs, userId, subjectId, grade) ==
  {x \in subs :
     /\ x.user_id = userId
     /\ x.status = "completed"
     /\ \E q \in quizzes :
          /\ q.id = x.quiz_id
          /\ q.subject_id = subjectId
          /\ q.grade_level = grade}

\* ORDER BY average_percentage DESC, total_score DESC, last_quiz_date DESC
RanksBefore(a, b) ==
  \/ a.average_percentage > b.average_percentage
  \/ /\ a.average_percentage = b.average_percentage
     /\ a.total_score > b.total_score
  \/ /\ a.average_percentage = b.average_percentage
     /\ a.total_score = b.total_score
     /\ a.last_quiz_date > b.last_quiz_date

\* update_leaderboard_rankings: the upsert of the user's row and the
\* renumbering of its partition
update_leaderboard_rankings(lb, subs, newRow) ==
  LET quiz == CHOOSE q \in quizzes : q.id = newRow.quiz_id
      mine == CompletedOf(subs, newRow.user_id, quiz.subject_id, quiz.grade_level)
      SameKey(l) ==
        /\ l.user_id = newRow.user_id
        /\ l.subject_id = quiz.subject_id
        /\ l.grade_level = quiz.grade_level
      entry ==
        [user_id |-> newRow.user_id, subject_id |-> quiz.subject_id,
         grade_level |-> quiz.grade_level,
         total_quizzes |-> Cardinality(mine),
         total_score |-> SumOf(mine, [x \in mine |-> x.total_score]),
         average_percentage |->
           RoundDiv(SumOf(mine, [x \in mine |-> x.percentage.h]),
                    Cardinality(mine)),
         last_quiz_date |-> MaxOf({x.completed_at : x \in mine}),
         rank_position |-> 0]
      upserted == {l \in lb : ~SameKey(l)}
                    \cup (IF mine = {} THEN {l \in lb : SameKey(l)} ELSE {entry})
      InPartition(l) ==
        l.subject_id = quiz.subject_id /\ l.grade_level = quiz.grade_level
      new_rank(l) ==
        1 + Cardinality({m \in upserted : InPartition(m) /\ RanksBefore(m, l)})
  IN  {IF InPartition(l) THEN [l EXCEPT !.rank_position = new_rank(l)] ELSE l :
         l \in upserted}

\* the leaderboard after a statement on a row of quiz_submissions
AfterRowEvent(lb, subs, event, oldRow, newRow) ==
  IF Fires(event, oldRow, newRow) THEN update_leaderboard_rankings(lb, subs, newRow)
  ELSE lb

\* the leaderboard after the INSERT of lines 117-120 stored the rows given
AfterInsert(lb, subs, rows) ==
  IF rows = {} THEN lb
  ELSE AfterRowEvent(lb, subs \cup rows, "INSERT", NULL,
                     CHOOSE r \in rows : TRUE)

(***************************************************************************)
(* submitQuiz (lines 72-127) as one request.                               *)
(***************************************************************************)
Status(code) == [status |-> code]

\* the prompt of line 110 and whether generateContent returned
FeedbackCall(score, total, incorrect, ai) ==
  [kind |-> "feedback", score |-> score, total |-> total,
   incorrectAnswers |-> incorrect, ok |-> ai.ok]

Outcome(r, c, rows) == [resp |-> r, aiCall |-> c, rows |-> rows]

SubmitOutcome(userId, quizId, answers, ai, find) ==
  IF InvalidAnswers(answers) THEN Outcome(Status(400), NoCall, {})
  ELSE IF ~IsUuid(quizId) THEN Outcome(Status(500), NoCall, {})
  ELSE IF {q \in quizzes : q.id = quizId} = {} THEN Outcome(Status(404), NoCall, {})
  ELSE
    LET quiz == CHOOSE q \in quizzes : q.id = quizId
        scored == ScoreLoop(answers.a, find, 0, <<>>)
    IN  IF scored.err THEN Outcome(Status(500), NoCall, {})
        ELSE
          LET percentage == Percentage(scored.score, quiz.total_questions)
              p == FeedbackCall(scored.score, quiz.total_questions,
                                scored.incorrectAnswers, ai)
          IN  IF ~ai.ok THEN Outcome(Status(500), p, {})
              ELSE
                LET improvementTips == ImprovementTips(ai.text)
                    row == SubmissionRow(quizId, userId, scored.score,
                                         percentage, improvementTips)
                IN  IF InsertSubmissionFails(row)
                      THEN Outcome(Status(500), p, {})
                      ELSE Outcome([status |-> 200, quizId |-> quizId,
                                    score |-> scored.score,
                                    total |-> quiz.total_questions,
                                    improvementTips |-> improvementTips],
                                   p, {row})

submitQuiz(userId, quizId, answers, ai, find) ==
  /\ steps < MaxSteps
  /\ steps' = steps + 1
  /\ LET out == SubmitOutcome(userId, quizId, answers, ai, find)
     IN  /\ resp' = out.resp
         /\ aiCall' = out.aiCall
         /\ quiz_submissions' = quiz_submissions \cup out.rows
         /\ leaderboard' = AfterInsert(leaderboard, quiz_submissions, out.rows)
         /\ nextId' = nextId + Cardinality(out.rows)
  /\ req' = [op |-> "submitQuiz", user |-> userId, quizId |-> quizId,
             answers |-> answers]
  /\ UNCHANGED <<quizzes, questions, answer_options, now>>
  /\ UNCHANGED <<auth, limiter, environment>>

(***************************************************************************)
(* getQuizHistory (lines 129-168).                                         *)
(***************************************************************************)
FilterNames == <<"grade", "subject", "marks", "completedDate", "from", "to">>

FilterColumn ==
  [grade |-> "q.grade_level =", subject |-> "sub.name =",
   marks |-> "s.total_score =", completedDate |-> "DATE(s.completed_at) =",
   from |-> "s.completed_at >=", to |-> "s.completed_at <="]

\* a query-string value is a string; absent and empty are both falsy
Supplied(v) == v # ""

\* lines 134-160: every supplied filter pushes its value onto queryParams and
\* appends the clause with the bare number queryParams.length as right-hand
\* side (the template literal has no "$" before the interpolation)
RECURSIVE BuildHistoryQuery(_, _, _, _)
BuildHistoryQuery(names, filters, clauses, queryParams) ==
  IF names = <<>>
    THEN [clauses |-> clauses, queryParams |-> queryParams]
    ELSE
      LET n == Head(names)
      IN  IF Supplied(filters[n])
            THEN LET ps == Append(queryParams, filters[n])
                 IN  BuildHistoryQuery(Tail(names), filters,
                       Append(clauses, [lhs |-> FilterColumn[n],
                                        placeholder |-> FALSE,
                                        number |-> Len(ps)]),
                       ps)
            ELSE BuildHistoryQuery(Tail(names), filters, clauses, queryParams)

\* parameters the statement text refers to: $1 of the base query and every
\* clause whose right-hand side is a placeholder
PlaceholderCount(clauses) ==
  1 + Cardinality({i \in 1..Len(clauses) : clauses[i].placeholder})

HistoryRow(q, s, sub) ==
  [quizId |-> q.id, gradeLevel |-> q.grade_level, subject |-> sub.name,
   score |-> s.total_score, total |-> q.total_questions,
   completedDate |-> s.completed_at]

\* variant: the WHERE s.user_id = $1 condition left out
HistoryJoin_AllUsers(userId) ==
  {j \in quizzes \X quiz_submissions \X subjects :
     /\ j[1].id = j[2].quiz_id
     /\ j[1].subject_id = j[3].id}

HistoryJoin(userId) ==
  {j \in quizzes \X quiz_submissions \X subjects :
     /\ j[1].id = j[2].quiz_id
     /\ j[1].subject_id = j[3].id
     /\ j[2].user_id = userId}

\* result rows as a bag: projected row -> number of copies
HistoryRows(userId) ==
  LET joined == HistoryJoin(userId)
      rows == {HistoryRow(j[1], j[2], j[3]) : j \in joined}
  IN  [r \in rows |->
         Cardinality({j \in joined : HistoryRow(j[1], j[2], j[3]) = r})]

\* pool.query(queryString, queryParams): the server rejects a bind whose
\* parameter count differs from the number the statement requires; when the
\* counts agree no filter clause is present
HistoryOutcome(userId, filters) ==
  LET built == BuildHistoryQuery(FilterNames, filters, <<>>, <<userId>>)
  IN  IF Len(built.queryParams) # PlaceholderCount(built.clauses)
        THEN Status(500)
        ELSE [status |-> 200, rows |-> HistoryRows(built.queryParams[1])]

NoFilters ==
  [grade |-> "", subject |-> "", marks |-> "", completedDate |-> "",
   from |-> "", to |-> ""]

FilterValue ==
  [grade |-> "9", subject |-> "Mathematics", marks |-> "1",
   completedDate |-> "1970-01-01", from |-> "1970-01-01", to |-> "1970-01-02"]

WithFilters(names) ==
  [n \in DOMAIN NoFilters |-> IF n \in names THEN FilterValue[n] ELSE ""]

\* no filter, each filter alone, the from/to range, the date with the range,
\* and all six
FilterInputs ==
  {WithFilters(names) :
     names \in {{}} \cup {{n} : n \in DOMAIN NoFilters}
               \cup {{"from", "to"}, {"completedDate", "from", "to"},
                     DOMAIN NoFilters}}

HistoryCase(userId, filters) == [user |-> userId, filters |-> filters]

\* every user without filters; john_doe with each choice of filters
HistoryCases ==
  {HistoryCase(u, NoFilters) : u \in Users}
  \cup {HistoryCase("john_doe", f) : f \in FilterInputs}

getQuizHistory(userId, filters) ==
  /\ steps < MaxSteps
  /\ steps' = steps + 1
  /\ resp' = HistoryOutcome(userId, filters)
  /\ req' = [op |-> "getQuizHistory", user |-> userId, filters |-> filters]
  /\ aiCall' = NoCall
  /\ UNCHANGED <<store, nextId, now>>
  /\ UNCHANGED <<auth, limiter, environment>>

(***************************************************************************)
(* generateQuiz (lines 11-70).  Body fields and the fields of the AI's     *)
(* question objects are JavaScript values.                                 *)
(***************************************************************************)
JUndef == [t |-> "undefined", n |-> 0, s |-> ""]
JNum(n) == [t |-> "number", n |-> n, s |-> ""]
JStr(s) == [t |-> "string", n |-> 0, s |-> s]

\* !v
Falsy(v) ==
  \/ v.t = "undefined"
  \/ v.t = "number" /\ v.n = 0
  \/ v.t = "string" /\ v.s = ""

\* a value bound to an INTEGER column: a number is itself, a string is read
\* as a decimal literal
DecimalLiterals == [s \in {"0", "1", "2", "3"} |->
                      CASE s = "0" -> 0 [] s = "1" -> 1 [] s = "2" -> 2 [] s = "3" -> 3]

IsInteger(v) ==
  \/ v.t = "number"
  \/ v.t = "string" /\ v.s \in DOMAIN DecimalLiterals

ToInteger(v) == IF v.t = "number" THEN v.n ELSE DecimalLiterals[v.s]

DifficultyLevels == {"easy", "medium", "hard"}

GenBody(subject, totalQuestions) ==
  [grade |-> JNum(9), Subject |-> JStr(subject),
   TotalQuestions |-> totalQuestions, MaxScore |-> JNum(10),
   Difficulty |-> JStr("easy")]

\* question objects of an AI reply
QWithAnswer ==
  [id |-> JNum(1), question |-> JStr("What is 2 + 2?"),
   options |-> <<"A", "B">>, answer |-> JStr("A"), difficulty |-> JStr("easy")]

QNoAnswer ==
  [id |-> JNum(1), question |-> JStr("What is 3 + 3?"),
   options |-> <<"A", "B">>, answer |-> JUndef, difficulty |-> JStr("easy")]

\* JSON.parse of a text: a syntax error, or an object that may have "quiz"
ParseError == [ok |-> FALSE, hasQuiz |-> FALSE, quiz |-> <<>>]
NoQuizField == [ok |-> TRUE, hasQuiz |-> FALSE, quiz |-> <<>>]
QuizData(qs) == [ok |-> TRUE, hasQuiz |-> TRUE, quiz |-> qs]

\* a reply text: whether it holds a ```json fence, what the fenced block
\* parses to and what the whole text parses to
GenFailed == [ok |-> FALSE, fenced |-> FALSE, inner |-> ParseError, whole |-> ParseError]
Fenced(d) == [ok |-> TRUE, fenced |-> TRUE, inner |-> d, whole |-> ParseError]
Raw(d) == [ok |-> TRUE, fenced |-> FALSE, inner |-> ParseError, whole |-> d]

GenerateReplies ==
  { GenFailed, Raw(ParseError), Raw(NoQuizField),
    Fenced(QuizData(<<QWithAnswer>>)), Raw(QuizData(<<QNoAnswer>>)) }

GenerateInput(body, reply) == [body |-> body, reply |-> reply]

BodyFields == {"grade", "Subject", "TotalQuestions", "MaxScore", "Difficulty"}

\* the well-formed body without one of its fields
Without(f) == [GenBody("Mathematics", JNum(3)) EXCEPT ![f] = JUndef]

\* a well-formed request with every reply; a request whose TotalQuestions is
\* the string "0", answered by an empty quiz; a request with a falsy field;
\* a request for an unknown subject; a request with one field missing
GenerateInputs ==
  {GenerateInput(GenBody("Mathematics", JNum(3)), r) : r \in GenerateReplies}
  \cup { GenerateInput(GenBody("Mathematics", JStr("0")), Fenced(QuizData(<<>>))),
         GenerateInput(GenBody("Mathematics", JNum(0)), Fenced(QuizData(<<>>))),
         GenerateInput(GenBody("Astrology", JNum(3)), Fenced(QuizData(<<>>))) }
  \cup {GenerateInput(Without(f), Fenced(QuizData(<<QWithAnswer>>))) : f \in BodyFields}

\* extractJson (lines 6-9) followed by JSON.parse (line 35)
ExtractJson(reply) == IF reply.fenced THEN reply.inner ELSE reply.whole

\* the lookup without its WHERE clause
SubjectByName_Unfiltered(name) == subjects

\* SELECT id FROM subjects WHERE name = $1
SubjectByName(name) == {sub \in subjects : sub.name = name.s}

QuizInsertFails(body) ==
  \/ ~IsInteger(body.grade)
  \/ ~IsInteger(body.TotalQuestions)
  \/ ~IsInteger(body.MaxScore)
  \/ ToInteger(body.grade) < 1
  \/ ToInteger(body.grade) > 12
  \/ body.Difficulty.s \notin DifficultyLevels

QuizRow(id, userId, subjectId, body) ==
  [id |-> id, subject_id |-> subjectId, grade_level |-> ToInteger(body.grade),
   difficulty_level |-> body.Difficulty.s,
   total_questions |-> ToInteger(body.TotalQuestions),
   total_marks |-> ToInteger(body.MaxScore), created_by |-> userId]

\* INSERT INTO questions: question_text NOT NULL, difficulty CHECK (a NULL
\* difficulty passes the CHECK); marks takes its default 1
QuestionInsertFails(q) ==
  \/ q.question.t = "undefined"
  \/ q.difficulty.t # "undefined" /\ q.difficulty.s \notin DifficultyLevels

QuestionRow(id, quizId, q) ==
  [id |-> id, quiz_id |-> quizId, question_text |-> q.question.s,
   difficulty_level |-> IF q.difficulty.t = "undefined" THEN NULL
                        ELSE q.difficulty.s,
   marks |-> 1]

\* line 54: one row per option, is_correct = (option === q.answer),
\* order_index = the array index
OptionRows(questionId, q) ==
  { [question_id |-> questionId, option_text |-> q.options[i],
     is_correct |-> (q.answer.t = "string" /\ q.options[i] = q.answer.s),
     order_index |-> i - 1] : i \in 1..Len(q.options) }

\* lines 57-60: { id: questionId, ...q } -- the spread comes last
ResolvedQuestion(questionId, q) ==
  [id |-> IF q.id.t = "undefined" THEN JNum(questionId) ELSE q.id,
   question |-> q.question, options |-> q.options, answer |-> q.answer,
   difficulty |-> q.difficulty]

\* the map over quizData.quiz once every insert it started has settled;
\* question i receives id firstId + i - 1
StoredIdx(qs) == {i \in 1..Len(qs) : ~QuestionInsertFails(qs[i])}

GenOutcome(r, c, qz, qn, op) ==
  [resp |-> r, aiCall |-> c, quizzes |-> qz, questions |-> qn,
   answer_options |-> op]

GenerateCall(body, reply) == [kind |-> "generate", body |-> body, ok |-> reply.ok]

GenerateOutcome(userId, body, reply) ==
  IF \E f \in BodyFields : Falsy(body[f])
    THEN GenOutcome(Status(400), NoCall, {}, {}, {})
  ELSE IF SubjectByName(body.Subject) = {}
    THEN GenOutcome(Status(400), NoCall, {}, {}, {})
  ELSE
    LET subjectId == (CHOOSE sub \in SubjectByName(body.Subject) : TRUE).id
        p == GenerateCall(body, reply)
        quizData == ExtractJson(reply)
        quizId == nextId
    IN  IF ~reply.ok \/ ~quizData.ok \/ QuizInsertFails(body)
          THEN GenOutcome(Status(500), p, {}, {}, {})
        ELSE
          LET quiz == QuizRow(quizId, userId, subjectId, body)
          IN  IF ~quizData.hasQuiz
                THEN GenOutcome(Status(500), p, {quiz}, {}, {})
              ELSE
                LET qs == quizData.quiz
                    qid(i) == quizId + i
                    rows == {QuestionRow(qid(i), quizId, qs[i]) : i \in StoredIdx(qs)}
                    opts == UNION {OptionRows(qid(i), qs[i]) : i \in StoredIdx(qs)}
                IN  IF StoredIdx(qs) # 1..Len(qs)
                      THEN GenOutcome(Status(500), p, {quiz}, rows, opts)
                      ELSE GenOutcome(
                             [status |-> 201, quizId |-> quizId,
                              gradeLevel |-> body.grade,
                              subject |-> body.Subject,
                              questions |-> [i \in 1..Len(qs) |->
                                               ResolvedQuestion(qid(i), qs[i])]],
                             p, {quiz}, rows, opts)

generateQuiz(userId, body, reply) ==
  /\ steps < MaxSteps
  /\ steps' = steps + 1
  /\ LET out == GenerateOutcome(userId, body, reply)
     IN  /\ resp' = out.resp
         /\ aiCall' = out.aiCall
         /\ quizzes' = quizzes \cup out.quizzes
         /\ questions' = questions \cup out.questions
         /\ answer_options' = answer_options \cup out.answer_options
         /\ nextId' = nextId + Cardinality(out.quizzes) + Cardinality(out.questions)
  /\ req' = [op |-> "generateQuiz", user |-> userId, body |-> body]
  /\ UNCHANGED <<quiz_submissions, leaderboard, now>>
  /\ UNCHANGED <<auth, limiter, environment>>

(***************************************************************************)
(* getHint (lines 170-192).                                                *)
(***************************************************************************)
\* outcome of model.generateContent for the hint prompt
HintFailed == [ok |-> FALSE, text |-> ""]
HintText(t) == [ok |-> TRUE, text |-> t]

\* the prompt of line 181 and whether generateContent returned
HintCall(question, ai) ==
  [kind |-> "hint", question |-> question.question_text, ok |-> ai.ok]

HintOut(r, c) == [resp |-> r, aiCall |-> c]

HintOutcome(questionId, ai) ==
  IF ~IsUuid(questionId) THEN HintOut(Status(500), NoCall)
  ELSE IF QuestionById(questionId) = {} THEN HintOut(Status(404), NoCall)
  ELSE
    LET question == CHOOSE q \in QuestionById(questionId) : TRUE
        p == HintCall(question, ai)
    IN  IF ~ai.ok THEN HintOut(Status(500), p)
        ELSE HintOut([status |-> 200, questionId |-> questionId,
                      hint |-> ai.text], p)

HintCase(userId, questionId, ai) ==
  [user |-> userId, questionId |-> questionId, ai |-> ai]

\* a stored question with the hint call returning and failing; an unknown
\* question id; a question id that is not a UUID
HintCases ==
  {HintCase("john_doe", 2, ai) :
     ai \in {HintText("Undo the addition first."), HintFailed}}
  \cup {HintCase("john_doe", id, HintText("Undo the addition first.")) :
          id \in {NoSuchId, MalformedId}}

getHint(userId, questionId, ai) ==
  /\ steps < MaxSteps
  /\ steps' = steps + 1
  /\ LET out == HintOutcome(questionId, ai)
     IN  /\ resp' = out.resp
         /\ aiCall' = out.aiCall
  /\ req' = [op |-> "getHint", user |-> userId, questionId |-> questionId]
  /\ UNCHANGED <<store, nextId, now>>
  /\ UNCHANGED <<auth, limiter, environment>>

(***************************************************************************)
(* The users table (schema lines 9-22) with rows of database/seed.sql.     *)
(* A user's id is a UUID; the seed rows are given their user names as ids, *)
(* the ids that uuidv4() returns are drawn from NewUserIds in order.       *)
(***************************************************************************)
UserRow(id, username, email) ==
  [id |-> id, username |-> username, email |-> email, is_active |-> TRUE]

SeedUsers ==
  { UserRow("john_doe", "john_doe", "john.doe@example.com"),
    UserRow("jane_smith", "jane_smith", "jane.smith@example.com"),
    UserRow("test_user", "test_user", "test@example.com") }

EmptyMap == [x \in {} |-> 0]

(***************************************************************************)
(* authRateLimit (middleware/auth, lines 589-617) as mounted on the auth   *)
(* routes: one limiter, with its own Map, per route.  Where the limiter is *)
(* exercised one tick of the clock is fifteen minutes.                     *)
(***************************************************************************)
LimitedRoutes == {"login", "register"}

\* authRateLimit(5, 15 * 60 * 1000) and authRateLimit(3, 60 * 60 * 1000)
MaxAttempts == [login |-> 5, register |-> 3]
WindowMs == [login |-> 1, register |-> 4]

\* req.ip of the clients
Ips == {"10.0.0.1", "10.0.0.2"}

\* next() was called: the downstream handler runs
CallsNext == [status |-> 0, next |-> TRUE]

\* userAttempts.count > maxAttempts
TooMany_Off(count, route) == count > MaxAttempts[route]

\* userAttempts.count >= maxAttempts
TooMany(count, route) == count >= MaxAttempts[route]

\* !userAttempts || now > userAttempts.resetTime
WindowOver(a, identifier) ==
  identifier \notin DOMAIN a \/ now > a[identifier].resetTime

SetAttempts(a, identifier, entry) ==
  [x \in DOMAIN a \cup {identifier} |-> IF x = identifier THEN entry ELSE a[x]]

RateOut(r, a) == [resp |-> r, attempts |-> a]

RateOutcome(route, identifier) ==
  LET a == attempts[route]
  IN  IF WindowOver(a, identifier)
        THEN RateOut(CallsNext,
                     SetAttempts(a, identifier,
                                 [count |-> 1, resetTime |-> now + WindowMs[route]]))
      ELSE IF TooMany(a[identifier].count, route)
        THEN RateOut(Status(429), a)
      ELSE RateOut(CallsNext,
                   SetAttempts(a, identifier,
                               [count |-> a[identifier].count + 1,
                                resetTime |-> a[identifier].resetTime]))

\* passed records, for each request the limiter let through, its route,
\* address and time
Admission(route, identifier) == [route |-> route, ip |-> identifier, at |-> now]

authRateLimit(route, identifier) ==
  /\ steps < MaxRateSteps
  /\ steps' = steps + 1
  /\ LET out == RateOutcome(route, identifier)
     IN  /\ resp' = out.resp
         /\ attempts' = [attempts EXCEPT ![route] = out.attempts]
         /\ passed' = IF out.resp = CallsNext
                        THEN passed (+) SetToBag({Admission(route, identifier)})
                        ELSE passed
  /\ req' = [op |-> "authRateLimit", route |-> route, ip |-> identifier]
  /\ aiCall' = NoCall
  /\ UNCHANGED <<store, nextId, now, auth, environment>>

RateTick ==
  /\ steps < MaxRateSteps
  /\ steps' = steps + 1
  /\ now < MaxRateTime
  /\ now' = now + 1
  /\ UNCHANGED <<store, nextId, req, resp, aiCall, auth, limiter, environment>>

(***************************************************************************)
(* Tokens (utils/jwt).  A token is modelled by its payload and by whether  *)
(* it is signed with the server's secret: jwt.sign is a function of the    *)
(* payload, so two tokens of one user and type issued in the same second   *)
(* are the same string.  In the authentication model the clock counts      *)
(* seconds and the lifetimes are those of the configuration                *)
(* JWT_EXPIRES_IN=1s, JWT_REFRESH_EXPIRES_IN=2s (read from the environment *)
(* by the config module; the defaults are 24h and 7d).                     *)
(***************************************************************************)
ExpiresIn == 1
RefreshExpiresIn == 2

\* 7 * 24 * 60 * 60 seconds, the expires_at of a session row
SessionLife == 604800

\* the seconds a cached user is kept
CacheLife == 3600

\* the configuration JWT_EXPIRES_IN=2s, JWT_REFRESH_EXPIRES_IN=3s
LongerExpiresIn == 2
LongerRefreshExpiresIn == 3

\* config.jwt
JwtConfig(expiresIn, refreshExpiresIn) ==
  [expiresIn |-> expiresIn, refreshExpiresIn |-> refreshExpiresIn]

Life(type) ==
  IF type = "access" THEN config.expiresIn ELSE config.refreshExpiresIn

Token(user, type, iat) ==
  [userId |-> user.id, username |-> user.username, email |-> user.email,
   type |-> type, iat |-> iat, exp |-> iat + Life(type), signed |-> TRUE]

\* generateTokenPair
TokenPair(user) ==
  [accessToken |-> Token(user, "access", now),
   refreshToken |-> Token(user, "refresh", now)]

\* the absent token
NoToken ==
  [userId |-> "", username |-> "", email |-> "", type |-> "none",
   iat |-> 0, exp |-> 0, signed |-> FALSE]

\* verifyToken throws: the signature does not verify, or the token expired
VerifyThrows(token) == ~token.signed \/ now >= token.exp

\* an Authorization header is the sequence of its blank-separated parts
NoHeader == <<>>
Bearer(token) == <<"Bearer", token>>

\* extractTokenFromHeader
extractTokenFromHeader(authHeader) ==
  IF authHeader = <<>> THEN NoToken
  ELSE IF Len(authHeader) # 2 \/ authHeader[1] # "Bearer" THEN NoToken
  ELSE authHeader[2]

(***************************************************************************)
(* Redis keys: the blacklist keys and the cached users, each with the time *)
(* at which it expires.                                                    *)
(***************************************************************************)
Key(kind, id, expires) == [kind |-> kind, id |-> id, expires |-> expires]

Exists(kind, id) ==
  \E k \in redis : k.kind = kind /\ k.id = id /\ k.expires > now

Del(keys, kind, id) == {k \in keys : ~(k.kind = kind /\ k.id = id)}

Setex(keys, kind, id, seconds) ==
  Del(keys, kind, id) \cup {Key(kind, id, now + seconds)}

\* The Redis client: "ready" serves commands; while it is "closed" a
\* command is rejected; while it is "reconnecting" a command waits in the
\* client's queue and its promise does not settle
ClientStates == {"ready", "closed", "reconnecting"}

\* the request is waiting for a Redis command and has not been answered
Stalled == [status |-> 0, stalled |-> TRUE]

\* the error of a rejected command as errorHandler answers it: no status
\* code on the error, so 500, with the error's message
RedisError == [status |-> 500, error |-> "The client is closed"]

\* isTokenBlacklisted: the catch answers false when the command is rejected
isTokenBlacklisted(jti) == redisClient = "ready" /\ Exists("blacklist", jti)

\* blacklistToken: the key is set only when the time to live is positive;
\* the catch swallows a rejected command
blacklistToken(keys, jti, expiry) ==
  IF expiry - now > 0 /\ redisClient = "ready"
    THEN Setex(keys, "blacklist", jti, expiry - now)
    ELSE keys

\* the token is not an access token
WrongType_Never(decoded) == FALSE

\* decoded.type !== 'access'
WrongType(decoded) == decoded.type # "access"

(***************************************************************************)
(* authenticateToken (middleware/auth, lines 381-449): 401, or next() with *)
(* req.user taken from the token.                                          *)
(***************************************************************************)
ReqUser(decoded) ==
  [userId |-> decoded.userId, username |-> decoded.username,
   email |-> decoded.email]

Unauthorized(error) == [status |-> 401, error |-> error]

Admit(decoded) == [status |-> 0, next |-> TRUE, user |-> ReqUser(decoded)]

authenticateToken(authHeader) ==
  LET token == extractTokenFromHeader(authHeader)
  IN  IF token = NoToken THEN Unauthorized("Access token is required")
      ELSE IF VerifyThrows(token) THEN Unauthorized("Invalid or expired token")
      ELSE IF WrongType(token) THEN Unauthorized("Invalid token type")
      ELSE IF redisClient = "reconnecting" THEN Stalled
      ELSE IF isTokenBlacklisted(token.userId)
        THEN Unauthorized("Token has been revoked")
      ELSE Admit(token)

(***************************************************************************)
(* The auth controller: login (lines 15-163), register (168-266),          *)
(* refreshToken (271-364) and logout (369-407).  Errors thrown by a        *)
(* handler reach errorHandler, which answers with the error's statusCode,  *)
(* 409 for the PostgreSQL code 23505 and 500 otherwise.                    *)
(***************************************************************************)
NewUserIds == <<"uuid-1", "uuid-2", "uuid-3">>

\* uuidv4()
uuidv4 == NewUserIds[Cardinality(users \ SeedUsers) + 1]

\* the user names of login requests and `${username}@example.com`
ExampleEmail == [newbie |-> "newbie@example.com", test |-> "test@example.com"]

LoginNames == DOMAIN ExampleEmail

Registration(username, email) == [username |-> username, email |-> email]

\* the bodies of register requests
Registrations ==
  { Registration("newbie", "newbie@example.com"),
    Registration("fresh", "newbie@example.com") }

\* WHERE username = $1 OR email = $1
FindUser(name) == {u \in users : u.username = name \/ u.email = name}

\* WHERE username = $1 OR email = $2
ExistingUser(username, email) ==
  {u \in users : u.username = username \/ u.email = email}

\* UNIQUE on username only
UniqueViolation_UsernameOnly(row) ==
  \E u \in users : u.id = row.id \/ u.username = row.username

\* INSERT INTO users: PRIMARY KEY (id), UNIQUE (username), UNIQUE (email)
UniqueViolation(row) ==
  \E u \in users :
    u.id = row.id \/ u.username = row.username \/ u.email = row.email

SessionRow(userId, refreshToken) ==
  [id |-> Cardinality(user_sessions) + 1, user_id |-> userId,
   refresh_token |-> refreshToken, expires_at |-> now + SessionLife,
   is_active |-> TRUE]

AppError(message, statusCode) == [status |-> statusCode, error |-> message]

\* the clients whose requests can be suspended at a query at the same time
Clients == {"c1", "c2"}

FreeClients == {c \in Clients : \A r \in inflight : r.client # c}

Suspended(op, client, username, email) ==
  [op |-> op, client |-> client, username |-> username, email |-> email]

AuthReq(op, username, email, at) ==
  [op |-> op, username |-> username, email |-> email, at |-> at]

\* the request is suspended at a query and has not been answered
Pending == [status |-> 0, pending |-> TRUE]

\* the handler answers, or is suspended, without having touched a table
Refuse(r) ==
  /\ resp' = r
  /\ UNCHANGED <<users, user_sessions, redis, held>>

\* generateTokenPair, INSERT INTO user_sessions, the cache write and the
\* response of login and register for the user row given, after rows were
\* added to the users table; the cache write comes after the INSERT and
\* before the response
Issue(user, newUsers, statusCode) ==
  LET tokens == TokenPair(user)
  IN  /\ users' = users \cup newUsers
      /\ user_sessions' =
           user_sessions \cup {SessionRow(user.id, tokens.refreshToken)}
      /\ IF redisClient = "ready"
           THEN /\ redis' = Setex(redis, "user", user.id, CacheLife)
                /\ held' = held \cup {tokens.accessToken, tokens.refreshToken}
                /\ resp' = [status |-> statusCode, user |-> user,
                            accessToken |-> tokens.accessToken,
                            refreshToken |-> tokens.refreshToken]
           ELSE /\ UNCHANGED <<redis, held>>
                /\ resp' = IF redisClient = "closed" THEN RedisError ELSE Stalled

\* login up to its first query: the user is found and the request is
\* answered, or the request goes on to create the user
login(username) ==
  /\ steps < MaxAuthSteps
  /\ steps' = steps + 1
  /\ IF FindUser(username) # {}
       THEN LET dbUser == CHOOSE u \in FindUser(username) : TRUE
            IN  /\ IF ~dbUser.is_active
                     THEN Refuse(AppError("Account is disabled", 401))
                     ELSE Issue(dbUser, {}, 200)
                /\ req' = AuthReq("login", username, dbUser.email, "select")
                /\ UNCHANGED inflight
       ELSE /\ FreeClients # {}
            /\ inflight' = inflight \cup
                 {Suspended("login", CHOOSE c \in FreeClients : TRUE,
                            username, ExampleEmail[username])}
            /\ Refuse(Pending)
            /\ req' = AuthReq("login", username, ExampleEmail[username], "select")
  /\ aiCall' = NoCall
  /\ UNCHANGED <<store, nextId, now, revoked, limiter, environment>>

\* register up to its first query
register(username, email) ==
  /\ steps < MaxAuthSteps
  /\ steps' = steps + 1
  /\ IF ExistingUser(username, email) # {}
       THEN /\ Refuse(AppError("Username or email already exists", 409))
            /\ req' = AuthReq("register", username, email, "select")
            /\ UNCHANGED inflight
       ELSE /\ FreeClients # {}
            /\ inflight' = inflight \cup
                 {Suspended("register", CHOOSE c \in FreeClients : TRUE,
                            username, email)}
            /\ Refuse(Pending)
            /\ req' = AuthReq("register", username, email, "select")
  /\ aiCall' = NoCall
  /\ UNCHANGED <<store, nextId, now, revoked, limiter, environment>>

\* the rest of login or register from INSERT INTO users on
insertUser(r) ==
  /\ steps < MaxAuthSteps
  /\ steps' = steps + 1
  /\ r \in inflight
  /\ inflight' = inflight \ {r}
  /\ LET row == UserRow(uuidv4, r.username, r.email)
     IN  IF UniqueViolation(row)
           THEN Refuse(AppError("Duplicate entry found", 409))
           ELSE Issue(row, {row}, IF r.op = "login" THEN 200 ELSE 201)
  /\ req' = AuthReq(r.op, r.username, r.email, "insert")
  /\ aiCall' = NoCall
  /\ UNCHANGED <<store, nextId, now, revoked, limiter, environment>>

\* a token signed with another secret
Forged == [Token(UserRow("john_doe", "john_doe", "john.doe@example.com"),
                 "access", 0) EXCEPT !.signed = FALSE]

\* no header, a header with another scheme, a forged token, and every
\* token a client was given
Headers ==
  {NoHeader, <<"Token", Forged>>, Bearer(Forged)} \cup {Bearer(t) : t \in held}

\* line 383 calls verifyToken, a name the module both imports from
\* utils/jwt (line 4) and declares for its own request handler (line 471);
\* the build decides which of the two the call reaches
Bindings == {"utils/jwt", "controller"}

\* logout behind authenticateToken (routes/auth, lines 242-245)
logout(authHeader, binding) ==
  /\ steps < MaxAuthSteps
  /\ steps' = steps + 1
  /\ LET a == authenticateToken(authHeader)
         accessToken == extractTokenFromHeader(authHeader)
     IN  IF a.status = 401 \/ a = Stalled
           THEN /\ resp' = a
                /\ UNCHANGED <<user_sessions, redis, revoked>>
         ELSE IF binding = "controller"
           \* the handler of line 471 returns nothing: decoded.exp throws
           THEN /\ resp' = AppError("Cannot read properties of undefined", 500)
                /\ UNCHANGED <<user_sessions, redis, revoked>>
         ELSE
           LET userId == a.user.userId
               decoded == accessToken
           IN  /\ redis' = IF redisClient = "ready"
                              THEN Del(blacklistToken(redis, userId, decoded.exp),
                                       "user", userId)
                              ELSE redis
               /\ user_sessions' =
                    {IF x.user_id = userId THEN [x EXCEPT !.is_active = FALSE]
                     ELSE x : x \in user_sessions}
               \* line 394: the cache delete, after the UPDATE
               /\ IF redisClient = "ready"
                    THEN /\ revoked' = revoked \cup {accessToken}
                              \cup {t \in held :
                                      t.type = "refresh" /\ t.userId = userId}
                         /\ resp' = [status |-> 200]
                    ELSE /\ UNCHANGED revoked
                         /\ resp' = RedisError
  /\ req' = [op |-> "logout", header |-> authHeader]
  /\ aiCall' = NoCall
  /\ UNCHANGED <<store, nextId, now, users, held, inflight, limiter, environment>>

\* validateRefreshToken (middleware/auth, lines 519-584)
validateRefreshToken(token) ==
  IF token = NoToken THEN [status |-> 400, error |-> "Refresh token is required"]
  ELSE IF VerifyThrows(token)
    THEN Unauthorized("Invalid or expired refresh token")
  ELSE IF token.type # "refresh" THEN Unauthorized("Invalid token type")
  ELSE IF redisClient = "reconnecting" THEN Stalled
  ELSE IF isTokenBlacklisted(token.userId)
    THEN Unauthorized("Refresh token has been revoked")
  ELSE Admit(token)

\* WHERE user_id = $1 AND refresh_token = $2 AND is_active = true
\*   AND expires_at > CURRENT_TIMESTAMP
ActiveSessions(userId, token) ==
  {x \in user_sessions :
     /\ x.user_id = userId
     /\ x.refresh_token = token
     /\ x.is_active
     /\ x.expires_at > now}

\* the refresh route: validateRefreshToken, then refreshToken
refresh(token) ==
  /\ steps < MaxAuthSteps
  /\ steps' = steps + 1
  /\ LET a == validateRefreshToken(token)
     IN  IF a.status # 0 \/ a = Stalled
           THEN /\ resp' = a
                /\ UNCHANGED <<user_sessions, redis, held>>
         ELSE
           LET userId == a.user.userId
               found == {u \in users : u.id = userId /\ u.is_active}
           IN  IF ActiveSessions(userId, token) = {}
                 THEN /\ resp' = AppError("Invalid refresh token", 401)
                      /\ UNCHANGED <<user_sessions, redis, held>>
               \* line 295: the cache read
               ELSE IF redisClient # "ready"
                 THEN /\ resp' = RedisError
                      /\ UNCHANGED <<user_sessions, redis, held>>
               ELSE IF ~Exists("user", userId) /\ found = {}
                 THEN /\ resp' = AppError("User not found", 404)
                      /\ UNCHANGED <<user_sessions, redis, held>>
               ELSE
                 LET user == CHOOSE u \in users : u.id = userId
                     tokens == TokenPair(user)
                 IN  /\ redis' = IF Exists("user", userId) THEN redis
                                  ELSE Setex(redis, "user", userId, CacheLife)
                     /\ user_sessions' =
                          {IF x.user_id = userId /\ x.refresh_token = token
                             THEN [x EXCEPT !.refresh_token = tokens.refreshToken,
                                            !.expires_at = now + SessionLife]
                           ELSE x : x \in user_sessions}
                     /\ held' = held \cup {tokens.accessToken, tokens.refreshToken}
                     /\ resp' = [status |-> 200,
                                 accessToken |-> tokens.accessToken,
                                 refreshToken |-> tokens.refreshToken]
  /\ req' = [op |-> "refresh", refreshToken |-> token]
  /\ aiCall' = NoCall
  /\ UNCHANGED <<store, nextId, now, users, revoked, inflight, limiter, environment>>

\* getProfile behind authenticateToken (routes/auth, line 297): the cached
\* user, or the row of the users table, which is then cached
getProfile(authHeader) ==
  /\ steps < MaxAuthSteps
  /\ steps' = steps + 1
  /\ LET a == authenticateToken(authHeader)
     IN  IF a.status = 401 \/ a = Stalled
           THEN /\ resp' = a
                /\ UNCHANGED redis
         \* line 421: the cache read
         ELSE IF redisClient # "ready"
           THEN /\ resp' = RedisError
                /\ UNCHANGED redis
         ELSE
           LET userId == a.user.userId
               found == {u \in users : u.id = userId /\ u.is_active}
           IN  IF Exists("user", userId)
                 THEN /\ resp' = [status |-> 200, user |-> userId]
                      /\ UNCHANGED redis
               ELSE IF found = {}
                 THEN /\ resp' = AppError("User not found", 404)
                      /\ UNCHANGED redis
               ELSE /\ resp' = [status |-> 200, user |-> userId]
                    /\ redis' = Setex(redis, "user", userId, CacheLife)
  /\ req' = [op |-> "getProfile", header |-> authHeader]
  /\ aiCall' = NoCall
  /\ UNCHANGED <<store, nextId, now, users, user_sessions, held, revoked,
                 inflight, limiter, config, redisClient, server>>

(***************************************************************************)
(* startServer (app, lines 509-532): connectDatabase, connectRedis, then   *)
(* listen.  connectRedis returns once the client is ready; when connect()  *)
(* rejects, the catch calls process.exit(1); while the client keeps        *)
(* reconnecting, connect() does not settle and listen is not reached.      *)
(***************************************************************************)
startServer ==
  /\ steps < MaxAuthSteps
  /\ steps' = steps + 1
  /\ server = "starting"
  /\ redisClient # "reconnecting"
  /\ server' = IF redisClient = "ready" THEN "listening" ELSE "exited"
  /\ UNCHANGED <<store, nextId, now, req, resp, aiCall, auth, limiter, config,
                 redisClient>>

\* Redis becomes unavailable while the server is running
redisDrops(state) ==
  /\ steps < MaxAuthSteps
  /\ steps' = steps + 1
  /\ server = "listening"
  /\ redisClient = "ready"
  /\ redisClient' = state
  /\ UNCHANGED <<store, nextId, now, req, resp, aiCall, auth, limiter, config,
                 server>>

(***************************************************************************)
(* The quiz routes (routes/quiz, lines 48, 90, 134, 163): each handler is  *)
(* mounted behind authenticateToken and reads the user id from req.user.   *)
(***************************************************************************)
RouteCases ==
  { [op |-> "generateQuiz", body |-> GenBody("Mathematics", JNum(3)),
     reply |-> Fenced(QuizData(<<QWithAnswer>>))],
    [op |-> "submitQuiz", quizId |-> 1,
     answers |-> Array(<<Item(2, "x = 5")>>), ai |-> Tips],
    [op |-> "getQuizHistory", filters |-> NoFilters],
    [op |-> "getHint", questionId |-> 2,
     ai |-> HintText("Undo the addition first.")] }

Effect(r, c, qz, qn, op, sb) ==
  [resp |-> r, aiCall |-> c, quizzes |-> qz, questions |-> qn,
   answer_options |-> op, quiz_submissions |-> sb]

\* what the handler of the route does for the user of req.user
RouteEffect(c, userId, find) ==
  CASE c.op = "generateQuiz" ->
         LET o == GenerateOutcome(userId, c.body, c.reply)
         IN  Effect(o.resp, o.aiCall, o.quizzes, o.questions, o.answer_options, {})
    [] c.op = "submitQuiz" ->
         LET o == SubmitOutcome(userId, c.quizId, c.answers, c.ai, find)
         IN  Effect(o.resp, o.aiCall, {}, {}, {}, o.rows)
    [] c.op = "getQuizHistory" ->
         Effect(HistoryOutcome(userId, c.filters), NoCall, {}, {}, {}, {})
    [] c.op = "getHint" ->
         LET o == HintOutcome(c.questionId, c.ai)
         IN  Effect(o.resp, o.aiCall, {}, {}, {}, {})

quizRoute(authHeader, c, find) ==
  /\ steps < MaxAuthSteps
  /\ steps' = steps + 1
  /\ LET a == authenticateToken(authHeader)
     IN  IF a.status = 401 \/ a = Stalled
           THEN /\ resp' = a
                /\ aiCall' = NoCall
                /\ UNCHANGED <<store, nextId>>
         ELSE
           LET e == RouteEffect(c, a.user.userId, find)
           IN  /\ resp' = e.resp
               /\ aiCall' = e.aiCall
               /\ quizzes' = quizzes \cup e.quizzes
               /\ questions' = questions \cup e.questions
               /\ answer_options' = answer_options \cup e.answer_options
               /\ quiz_submissions' = quiz_submissions \cup e.quiz_submissions
               /\ leaderboard' = AfterInsert(leaderboard, quiz_submissions,
                                             e.quiz_submissions)
               /\ nextId' = nextId + Cardinality(e.quizzes)
                              + Cardinality(e.questions)
                              + Cardinality(e.quiz_submissions)
  /\ req' = [op |-> "quizRoute", route |-> c.op, header |-> authHeader]
  /\ UNCHANGED <<now, auth, limiter, environment>>

\* a second passes; Redis drops the keys that expired
AuthTick ==
  /\ steps < MaxAuthSteps
  /\ steps' = steps + 1
  /\ now < MaxTime
  /\ now' = now + 1
  /\ redis' = {k \in redis : k.expires > now'}
  /\ UNCHANGED <<store, nextId, req, resp, aiCall, users, user_sessions, held,
                 revoked, inflight, limiter, environment>>

(***************************************************************************)
(* submitQuiz as it interleaves with other requests: the handler awaits    *)
(* its queries and the feedback call, so another request can run between   *)
(* the feedback reply (line 115) and the INSERT (line 117).                *)
(***************************************************************************)
SuspendedSubmit(client, userId, quizId, answers, scored, total, tips) ==
  [op |-> "submitQuiz", client |-> client, user |-> userId, quizId |-> quizId,
   answers |-> answers, score |-> scored.score, total |-> total,
   tips |-> tips, since |-> nextId]

SubmitReq(userId, quizId, answers, at, since) ==
  [op |-> "submitQuiz", user |-> userId, quizId |-> quizId,
   answers |-> answers, at |-> at, since |-> since]

\* concurrent submissions: each user on the seed quiz, with no answer and
\* with one answer, and one request whose feedback call fails
RaceCases ==
  {SubmitCase(u, SubmitInput(1, Array(a)), Tips) :
     u \in Users, a \in {<<>>, <<Item(2, "x = 5")>>}}
  \cup {SubmitCase("john_doe", SubmitInput(1, Array(<<>>)), AIFailed)}

\* lines 72-115: the request is answered with an error, or has its score
\* and tips and is suspended at the INSERT
submitScored(userId, quizId, answers, ai, find) ==
  /\ steps < MaxRaceSteps
  /\ steps' = steps + 1
  /\ FreeClients # {}
  /\ LET out == SubmitOutcome(userId, quizId, answers, ai, find)
     IN  IF out.aiCall.kind = "feedback" /\ out.aiCall.ok
           THEN /\ inflight' = inflight \cup
                     {SuspendedSubmit(CHOOSE c \in FreeClients : TRUE,
                                      userId, quizId, answers,
                                      ScoreLoop(answers.a, find, 0, <<>>),
                                      out.aiCall.total,
                                      ImprovementTips(ai.text))}
                /\ resp' = Pending
                /\ aiCall' = out.aiCall
           ELSE /\ resp' = out.resp
                /\ aiCall' = out.aiCall
                /\ UNCHANGED inflight
  /\ req' = SubmitReq(userId, quizId, answers, "feedback", nextId)
  /\ UNCHANGED <<store, nextId, now, users, user_sessions, redis, held,
                 revoked, limiter, environment>>

\* lines 117-126: the INSERT and the response of a suspended request
insertSubmission(r) ==
  /\ steps < MaxRaceSteps
  /\ steps' = steps + 1
  /\ r \in inflight
  /\ r.op = "submitQuiz"
  /\ inflight' = inflight \ {r}
  /\ LET row == SubmissionRow(r.quizId, r.user, r.score,
                              Percentage(r.score, r.total), r.tips)
     IN  IF InsertSubmissionFails(row)
           THEN /\ resp' = Status(500)
                /\ UNCHANGED <<quiz_submissions, leaderboard, nextId>>
           ELSE /\ resp' = [status |-> 200, quizId |-> r.quizId,
                            score |-> r.score, total |-> r.total,
                            improvementTips |-> r.tips]
                /\ quiz_submissions' = quiz_submissions \cup {row}
                /\ leaderboard' = AfterInsert(leaderboard, quiz_submissions, {row})
                /\ nextId' = nextId + 1
  /\ req' = SubmitReq(r.user, r.quizId, r.answers, "insert", r.since)
  /\ aiCall' = NoCall
  /\ UNCHANGED <<quizzes, questions, answer_options, now, users, user_sessions,
                 redis, held, revoked, limiter, environment>>

(***************************************************************************)
(* Passage of time: NOW() of the database.                                 *)
(***************************************************************************)
Tick ==
  /\ steps < MaxSteps
  /\ steps' = steps + 1
  /\ now < MaxTime
  /\ now' = now + 1
  /\ UNCHANGED <<store, nextId, req, resp, aiCall>>
  /\ UNCHANGED <<auth, limiter, environment>>

\* the tables after schema and seed, and the server's own maps
InitialStore ==
  /\ quizzes = SeedQuizzes
  /\ questions = SeedQuestions
  /\ answer_options = SeedAnswerOptions
  /\ quiz_submissions = {}
  /\ leaderboard = {}
  /\ nextId = FirstFreeId
  /\ now = 0
  /\ steps = 0
  /\ req = [op |-> "none"]
  /\ resp = Status(0)
  /\ aiCall = NoCall
  /\ users = SeedUsers
  /\ user_sessions = {}
  /\ redis = {}
  /\ held = {}
  /\ revoked = {}
  /\ inflight = {}
  /\ attempts = [route \in LimitedRoutes |-> EmptyMap]
  /\ passed = EmptyBag

\* the server has started with Redis reachable
Init ==
  /\ InitialStore
  /\ config = JwtConfig(ExpiresIn, RefreshExpiresIn)
  /\ redisClient = "ready"
  /\ server = "listening"

Next ==
  \/ \E u \in Authors, in \in GenerateInputs :
       generateQuiz(u, in.body, in.reply)
  \/ \E c \in SubmitCases, find \in FindChoices :
       submitQuiz(c.user, c.quizId, c.answers, c.ai, find)
  \/ \E c \in HistoryCases : getQuizHistory(c.user, c.filters)
  \/ \E c \in HintCases : getHint(c.user, c.questionId, c.ai)
  \/ Tick

Spec == Init /\ [][Next]_vars

(***************************************************************************)
(* The rate limiters alone: requests to the two limited routes from the    *)
(* client addresses, and the passage of time.                              *)
(***************************************************************************)
RateNext ==
  \/ \E route \in LimitedRoutes, ip \in Ips : authRateLimit(route, ip)
  \/ RateTick

RateSpec == Init /\ [][RateNext]_vars

(***************************************************************************)
(* Concurrent submissions: submitQuiz requests that interleave at the      *)
(* INSERT.                                                                 *)
(***************************************************************************)
RaceNext ==
  \/ \E c \in RaceCases, find \in FindChoices :
       submitScored(c.user, c.quizId, c.answers, c.ai, find)
  \/ \E r \in inflight : insertSubmission(r)

RaceSpec == Init /\ [][RaceNext]_vars

(***************************************************************************)
(* Authentication: the auth routes and the quiz routes behind the token    *)
(* middleware, with login and register requests interleaving at their      *)
(* queries.                                                                *)
(***************************************************************************)
AuthNext ==
  \/ \E username \in LoginNames : login(username)
  \/ \E r \in Registrations : register(r.username, r.email)
  \/ \E r \in inflight : insertUser(r)
  \/ \E h \in Headers, binding \in Bindings : logout(h, binding)
  \/ \E t \in held \cup {NoToken} : refresh(t)
  \/ \E h \in Headers, c \in RouteCases, find \in FindChoices :
       quizRoute(h, c, find)
  \/ AuthTick

AuthSpec == Init /\ [][AuthNext]_vars

(***************************************************************************)
(* Authentication with tokens that live longer than a second, so that a    *)
(* user can hold two different unexpired access tokens.                    *)
(***************************************************************************)
ReloginInit ==
  /\ InitialStore
  /\ config = JwtConfig(LongerExpiresIn, LongerRefreshExpiresIn)
  /\ redisClient = "ready"
  /\ server = "listening"

ReloginSpec == ReloginInit /\ [][AuthNext]_vars

(***************************************************************************)
(* The server from its start, with Redis unavailable at the start or from  *)
(* some point on.                                                          *)
(***************************************************************************)
OutageInit ==
  /\ InitialStore
  /\ config = JwtConfig(ExpiresIn, RefreshExpiresIn)
  /\ redisClient \in ClientStates
  /\ server = "starting"

OutageNext ==
  \/ startServer
  \/ \E state \in ClientStates \ {"ready"} : redisDrops(state)
  \/ server = "listening" /\ \E username \in LoginNames : login(username)
  \/ server = "listening" /\ \E r \in Registrations : register(r.username, r.email)
  \/ server = "listening" /\ \E r \in inflight : insertUser(r)
  \/ server = "listening" /\ \E h \in Headers : getProfile(h)
  \/ server = "listening" /\ \E h \in Headers : logout(h, "utils/jwt")
  \/ server = "listening" /\ \E t \in held \cup {NoToken} : refresh(t)
  \/ server = "listening" /\ \E h \in Headers, c \in RouteCases, find \in FindChoices :
       quizRoute(h, c, find)

OutageSpec == OutageInit /\ [][OutageNext]_vars

(***************************************************************************)
(* Properties.                                                             *)
(***************************************************************************)
IsSubmit == req.op = "submitQuiz"

\* the last request was a submitQuiz that reached the feedback prompt
Scored == IsSubmit /\ aiCall.kind = "feedback"

\* the last request was a submitQuiz answered 200
Recorded == IsSubmit /\ resp.status = 200

QuizStored(id) == \E q \in quizzes : q.id = id

OwnRows == {s \in quiz_submissions :
              s.user_id = req.user /\ s.quiz_id = req.quizId}

AnsweredCorrectly(x) == x.answer \in CorrectTexts(x.questionId)

CorrectCount(a) == Cardinality({i \in 1..Len(a) : AnsweredCorrectly(a[i])})

\* C1: every stored submission of a quiz with a non-zero question count has
\* percentage = score / total_questions * 100 rounded to two decimals, i.e.
\* its hundredths are a nearest integer to score * 10000 / total_questions
C1_PercentageRounded ==
  \A s \in quiz_submissions : \A q \in quizzes :
    (q.id = s.quiz_id /\ q.total_questions # 0) =>
      /\ ~s.percentage.nan
      /\ ~s.percentage.inf
      /\ 2 * Abs(s.percentage.h * q.total_questions - s.total_score * 100)
           <= Abs(q.total_questions)

\* a stored row whose percentage had to be rounded up: 2 of 3 is 66.67
C1_Witness ==
  \E s \in quiz_submissions : \E q \in quizzes :
    /\ q.id = s.quiz_id
    /\ q.total_questions = 3
    /\ s.total_score = 200
    /\ s.percentage = Num(6667)

WrongAnswers(a) == SelectSeq(a, LAMBDA x : ~AnsweredCorrectly(x))

\* C2: in a scored request the score counts exactly the answers equal to the
\* correct option's text, and the incorrect-answer list of the prompt holds
\* one entry per other answer, in order
C2_ExactMatch ==
  Scored =>
    LET a == req.answers.a
        wrong == WrongAnswers(a)
        listed == aiCall.incorrectAnswers
    IN  /\ aiCall.score = CorrectCount(a)
        /\ Len(listed) = Len(wrong)
        /\ \A i \in 1..Len(wrong) :
             /\ listed[i].userAnswer = wrong[i].answer
             /\ listed[i].correctAnswer \in CorrectTexts(wrong[i].questionId)
             /\ \E q \in QuestionById(wrong[i].questionId) :
                  listed[i].question = q.question_text

\* a correct answer and one that differs from the correct text only by case
C2_Witness ==
  /\ Scored
  /\ req.answers = Array(<<Item(2, "x = 5"), Item(3, "X + 6")>>)
  /\ aiCall.score = 1
  /\ Len(aiCall.incorrectAnswers) = 1
  /\ aiCall.incorrectAnswers[1].userAnswer = "X + 6"
  /\ aiCall.incorrectAnswers[1].correctAnswer = "x + 6"

SeedScenario ==
  /\ req.quizId = 1
  /\ req.answers = Array(<<Item(2, "x = 5"), Item(3, "X + 6")>>)

RECURSIVE MarksSum(_)
MarksSum(a) ==
  IF a = <<>> THEN 0
  ELSE (IF AnsweredCorrectly(Head(a)) THEN MarksOf(Head(a).questionId) ELSE 0)
       + MarksSum(Tail(a))

C4_ZeroTotalRefused ==
  /\ (/\ IsSubmit
      /\ ~InvalidAnswers(req.answers)
      /\ \E q \in quizzes : q.id = req.quizId /\ q.total_questions = 0)
       => resp.status >= 400
  /\ \A s \in quiz_submissions :
       /\ ~s.percentage.nan
       /\ ~s.percentage.inf
       /\ \A q \in quizzes : q.id = s.quiz_id => q.total_questions # 0

\* C5: when the feedback call fails the submission is still stored and the
\* response is 200 with no improvement tips
C5_FeedbackFailureTolerated ==
  (Scored /\ ~aiCall.ok) =>
    /\ resp.status = 200
    /\ resp.improvementTips = <<>>
    /\ \E s \in OwnRows : s.improvement_suggestions = <<>>

\* C6: a submitQuiz whose answers field is missing or not an array gets 400,
\* one whose quiz id matches no stored quiz gets 404; neither writes a
\* submission nor calls the text-generation service
C6_BadRequestsRejected ==
  [][IsSubmit' =>
       /\ InvalidAnswers(req'.answers) =>
            /\ resp'.status = 400
            /\ quiz_submissions' = quiz_submissions
            /\ aiCall'.kind = "none"
       /\ (~InvalidAnswers(req'.answers) /\ ~QuizStored(req'.quizId)) =>
            /\ resp'.status = 404
            /\ quiz_submissions' = quiz_submissions
            /\ aiCall'.kind = "none"]_vars

BelongsTo(qid, quizId) ==
  \E q \in questions : q.id = qid /\ q.quiz_id = quizId

\* C7: a submitQuiz with an answer whose questionId is not a question of the
\* submitted quiz gets 400 and stores no submission
C7_ForeignQuestionRejected ==
  [][(/\ IsSubmit'
      /\ ~InvalidAnswers(req'.answers)
      /\ QuizStored(req'.quizId)
      /\ \E i \in 1..Len(req'.answers.a) :
           ~BelongsTo(req'.answers.a[i].questionId, req'.quizId))
       => /\ resp'.status = 400
          /\ quiz_submissions' = quiz_submissions]_vars

\* the request, past the format and quiz checks, names a stored question
\* none of whose options is flagged correct
NamesUnkeyedQuestion ==
  /\ IsSubmit
  /\ ~InvalidAnswers(req.answers)
  /\ QuizStored(req.quizId)
  /\ \E i \in 1..Len(req.answers.a) :
       /\ QuestionById(req.answers.a[i].questionId) # {}
       /\ CorrectOptions(req.answers.a[i].questionId) = {}

\* C8: a submitQuiz that names a question with no option flagged correct
\* gets 500, stores no submission and sends nothing to the feedback prompt
C8_NoCorrectOptionFails ==
  [][NamesUnkeyedQuestion' =>
       /\ resp'.status = 500
       /\ quiz_submissions' = quiz_submissions
       /\ aiCall'.kind = "none"]_vars

\* such a request after an answer that was scored correct
C8_Witness ==
  /\ NamesUnkeyedQuestion
  /\ Len(req.answers.a) = 2
  /\ req.answers.a[1] = Item(2, "x = 5")
  /\ resp.status = 500

IsHistory == req.op = "getQuizHistory"

SubmissionsOf(u) == {s \in quiz_submissions : s.user_id = u}

RowShows(r, s) ==
  /\ r.quizId = s.quiz_id
  /\ r.score = s.total_score
  /\ r.completedDate = s.completed_at

\* C9: getQuizHistory without filters answers 200 with one row per
\* submission of the caller and no row of anybody else
C9_OwnHistoryOnly ==
  (IsHistory /\ req.filters = NoFilters) =>
    /\ resp.status = 200
    /\ BagCardinality(resp.rows) = Cardinality(SubmissionsOf(req.user))
    /\ \A s \in SubmissionsOf(req.user) :
         \E r \in DOMAIN resp.rows : RowShows(r, s)
    /\ \A r \in DOMAIN resp.rows :
         \E s \in SubmissionsOf(req.user) : RowShows(r, s)

\* the caller and another user both have a stored submission
C9_Witness ==
  /\ IsHistory
  /\ req.filters = NoFilters
  /\ resp.status = 200
  /\ SubmissionsOf(req.user) # {}
  /\ quiz_submissions \ SubmissionsOf(req.user) # {}
  /\ BagCardinality(resp.rows) = 1

\* the filters as the claim reads them: the supplied value is the
\* comparison value; a date is the timestamp of its midnight, two ticks of
\* the clock making a day
GradeOf == [g \in {"9"} |-> 9]
MarksValueOf == [m \in {"1"} |-> 100]
DayOf == [d \in {"1970-01-01", "1970-01-02"} |->
            IF d = "1970-01-01" THEN 0 ELSE 1]

Satisfies(s, q, sub, f) ==
  /\ Supplied(f.grade) => q.grade_level = GradeOf[f.grade]
  /\ Supplied(f.subject) => sub.name = f.subject
  /\ Supplied(f.marks) => s.total_score = MarksValueOf[f.marks]
  /\ Supplied(f.completedDate) => s.completed_at \div 2 = DayOf[f.completedDate]
  /\ Supplied(f.from) => s.completed_at >= DayOf[f.from] * 2
  /\ Supplied(f.to) => s.completed_at <= DayOf[f.to] * 2

FilteredSubmissions(u, f) ==
  {s \in SubmissionsOf(u) :
     \E q \in quizzes : \E sub \in subjects :
       q.id = s.quiz_id /\ sub.id = q.subject_id /\ Satisfies(s, q, sub, f)}

\* C10: getQuizHistory with any subset of the filters answers 200 with
\* exactly the caller's submissions that satisfy every supplied filter
C10_FiltersApplied ==
  IsHistory =>
    /\ resp.status = 200
    /\ BagCardinality(resp.rows)
         = Cardinality(FilteredSubmissions(req.user, req.filters))
    /\ \A s \in FilteredSubmissions(req.user, req.filters) :
         \E r \in DOMAIN resp.rows : RowShows(r, s)
    /\ \A r \in DOMAIN resp.rows :
         \E s \in FilteredSubmissions(req.user, req.filters) : RowShows(r, s)

IsGenerate == req.op = "generateQuiz"

\* the step is a request handled by the server, not the passage of time
RequestStep == steps' = steps + 1 /\ now' = now

RowsOf(rows, userId, quizId) ==
  {s \in rows : s.user_id = userId /\ s.quiz_id = quizId}

\* C11: when a submission that was recorded is sent again by the same user
\* for the same quiz and the feedback call returns, the request succeeds,
\* one more row is stored, and the new row's attempt number is larger than
\* that of every earlier row of this user and quiz
C11_RetakeRecorded ==
  [][(/\ Recorded
      /\ RequestStep
      /\ req' = req
      /\ aiCall'.kind = "feedback"
      /\ aiCall'.ok)
       => /\ resp'.status = 200
          /\ Cardinality(quiz_submissions' \ quiz_submissions) = 1
          /\ \A new \in quiz_submissions' \ quiz_submissions :
               \A old \in RowsOf(quiz_submissions, req.user, req.quizId) :
                 new.attempt_number > old.attempt_number]_vars

QuestionsOfQuiz(qs, quizId) == {q \in qs : q.quiz_id = quizId}

\* C12: a generateQuiz request either answers 201 with its quiz row, one
\* question row per returned question and one option row per option stored,
\* or answers with an error and leaves no quiz, question or option row
C12_AllOrNothing ==
  [][(IsGenerate' /\ RequestStep) =>
       \/ /\ resp'.status = 201
          /\ \E q \in quizzes' \ quizzes : q.id = resp'.quizId
          /\ Cardinality(QuestionsOfQuiz(questions', resp'.quizId))
               = Len(resp'.questions)
          /\ \A q \in QuestionsOfQuiz(questions', resp'.quizId) :
               \E i \in 1..Len(resp'.questions) :
                 Cardinality({o \in answer_options' : o.question_id = q.id})
                   = Cardinality({resp'.questions[i].options[j] :
                                    j \in 1..Len(resp'.questions[i].options)})
       \/ /\ resp'.status # 201
          /\ quizzes' = quizzes
          /\ questions' = questions
          /\ answer_options' = answer_options]_vars

\* C13: a generateQuiz request whose subject names no stored subject gets a
\* 400-class answer, stores no quiz and calls no text generation; a request
\* with one of the five fields missing gets 400 and touches no table
C13_BadGenerateRejected ==
  [][(IsGenerate' /\ RequestStep) =>
       /\ (\A sub \in subjects : JStr(sub.name) # req'.body.Subject) =>
            /\ resp'.status \in 400..499
            /\ quizzes' = quizzes
            /\ aiCall'.kind = "none"
       /\ (\E f \in BodyFields : req'.body[f].t = "undefined") =>
            /\ resp'.status = 400
            /\ store' = store
            /\ aiCall'.kind = "none"]_vars

\* a request for the subject Astrology was refused
C13_Witness ==
  /\ IsGenerate
  /\ req.body.Subject = JStr("Astrology")
  /\ \A f \in BodyFields : ~Falsy(req.body[f])
  /\ resp.status = 400
  /\ aiCall = NoCall

IsHint == req.op = "getHint"

\* C14: a getHint whose questionId matches no stored question gets 404 and
\* sends nothing to the text-generation service
C14_UnknownQuestionNotFound ==
  (IsHint /\ \A q \in questions : q.id # req.questionId) =>
    /\ resp.status = 404
    /\ aiCall.kind = "none"

\* C15: a submitQuiz answered 200 carries at most two improvement tips
C15_AtMostTwoTips ==
  Recorded => Len(resp.improvementTips) <= 2

IsRate == req.op = "authRateLimit"

\* the requests of a route and address that were let through during the
\* window that ends at resetTime
PassedInWindow(route, ip, resetTime) ==
  LET in == {e \in DOMAIN passed :
               /\ e.route = route
               /\ e.ip = ip
               /\ e.at >= resetTime - WindowMs[route]
               /\ e.at <= resetTime}
  IN  BagCardinality([e \in in |-> passed[e]])

WindowLimit ==
  \A route \in LimitedRoutes : \A ip \in DOMAIN attempts[route] :
    PassedInWindow(route, ip, attempts[route][ip].resetTime) <= MaxAttempts[route]

\* C18: for each route and address at most maxAttempts requests pass the
\* limiter within one window; a request that finds the window full gets 429
\* and is not passed on; a request after the reset time is passed on and
\* opens a window with count 1
C18_RateLimited ==
  [][(IsRate' /\ RequestStep) =>
       LET route == req'.route
           ip == req'.ip
           a == attempts[route]
       IN  /\ WindowLimit'
           /\ (/\ ip \in DOMAIN a
               /\ now <= a[ip].resetTime
               /\ PassedInWindow(route, ip, a[ip].resetTime) >= MaxAttempts[route])
                => /\ resp'.status = 429
                   /\ passed' = passed
                   /\ attempts' = attempts
           /\ (ip \in DOMAIN a /\ now > a[ip].resetTime) =>
                /\ resp' = CallsNext
                /\ attempts'[route][ip] =
                     [count |-> 1, resetTime |-> now + WindowMs[route]]]_vars

\* five login requests of an address passed in an earlier window, and its
\* first request after the reset time was let through with count 1
C18_Witness ==
  /\ IsRate
  /\ req.route = "login"
  /\ resp = CallsNext
  /\ attempts.login[req.ip].count = 1
  /\ attempts.login[req.ip].resetTime = now + WindowMs.login
  /\ \E e \in DOMAIN passed :
       e.route = "login" /\ e.ip = req.ip /\ e.at < now /\ passed[e] = MaxAttempts.login

IsQuizRoute == req.op = "quizRoute"

\* the header carries a Bearer token that verifies, is unexpired, has type
\* access and whose user has no blacklist key
Acceptable(h) ==
  /\ Len(h) = 2
  /\ h[1] = "Bearer"
  /\ h[2].signed
  /\ h[2].exp > now
  /\ h[2].type = "access"
  /\ \A k \in redis :
       ~(k.kind = "blacklist" /\ k.id = h[2].userId /\ k.expires > now)

Presents(r, type) ==
  IF r.op \in {"quizRoute", "logout"}
    THEN /\ type = "access"
         /\ Len(r.header) = 2
         /\ r.header[1] = "Bearer"
         /\ r.header[2] \in revoked
         /\ r.header[2].type = "access"
  ELSE /\ r.op = "refresh"
       /\ type = "refresh"
       /\ r.refreshToken \in revoked
       /\ r.refreshToken.type = "refresh"

\* C17: once a logout has succeeded, every request behind authenticateToken
\* that presents the access token used for it gets 401, and every refresh
\* request that presents a refresh token issued to the user before the
\* logout is rejected
C17_LogoutRevokes ==
  [][RequestStep =>
       /\ Presents(req', "access") => resp'.status = 401
       /\ Presents(req', "refresh") => resp'.status \in 400..499]_vars

UniqueUsers ==
  \A u, v \in users :
    (u.username = v.username \/ u.email = v.email) => u = v

\* C19: the users table never holds two rows with the same username or the
\* same email, and a register request that is answered while its username
\* or email is taken gets 409 and adds no user and no session
C19_NoDuplicateUsers ==
  [][/\ UniqueUsers'
     /\ (/\ RequestStep
         /\ req'.op = "register"
         /\ resp' # Pending
         /\ ExistingUser(req'.username, req'.email) # {})
          => /\ resp'.status = 409
             /\ users' = users
             /\ user_sessions' = user_sessions]_vars

\* a register request lost the race: it passed the check and was refused
\* at the insert
C19_Witness ==
  /\ req.op = "register"
  /\ req.at = "insert"
  /\ resp.status = 409

\* C20: a login request that was answered got 200 with an access and a
\* refresh token, or 401 for an account that is not active
C20_LoginAlwaysSucceeds ==
  (req.op = "login" /\ resp # Pending) =>
    \/ /\ resp.status = 200
       /\ resp.accessToken.type = "access"
       /\ resp.refreshToken.type = "refresh"
       /\ \E u \in users : u.username = req.username
    \/ /\ resp.status = 401
       /\ \E u \in FindUser(req.username) : ~u.is_active

\* the last request was a generateQuiz answered 201
Generated == IsGenerate /\ resp.status = 201

\* C24: every question row stored by generateQuiz has exactly one option row
\* whose is_correct flag is set
C24_ExactlyOneCorrect ==
  \A q \in GeneratedQuestions : Cardinality(CorrectOptions(q.id)) = 1

\* C27: every question id in a 201 response of generateQuiz is the id of a
\* question row stored for the quiz the response names
C27_ReturnedIdsStored ==
  Generated =>
    \A i \in 1..Len(resp.questions) :
      \E q \in QuestionsOfQuiz(questions, resp.quizId) :
        resp.questions[i].id = JNum(q.id)

\* C28: the question entries of a 201 response of generateQuiz carry no
\* answer field, so two replies that differ only in the answers they
\* designate are answered with the same entries
C28_AnswerNotRevealed ==
  Generated =>
    \A i \in 1..Len(resp.questions) : resp.questions[i].answer = JUndef

\* C30: the total_questions stored for a quiz created by a successful
\* generateQuiz is the number of question rows stored for that quiz
C30_TotalIsQuestionCount ==
  Generated =>
    \A q \in quizzes :
      q.id = resp.quizId =>
        q.total_questions = Cardinality(QuestionsOfQuiz(questions, q.id))

\* C29: every stored submission of a quiz with a non-zero question count has
\* a score between 0 and the quiz's total question count and a percentage
\* between 0 and 100, and a submitQuiz that was recorded scored no more
\* answers than the quiz has questions
C29_ScoreWithinQuiz ==
  /\ \A s \in quiz_submissions : \A q \in quizzes :
       (q.id = s.quiz_id /\ q.total_questions > 0) =>
         /\ s.total_score >= 0
         /\ s.total_score <= q.total_questions * 100
         /\ ~s.percentage.nan
         /\ ~s.percentage.inf
         /\ s.percentage.h >= 0
         /\ s.percentage.h <= 10000
  /\ Recorded =>
       \A q \in quizzes :
         (q.id = req.quizId /\ q.total_questions > 0) =>
           Len(req.answers.a) <= q.total_questions

LeaderboardPartition(subjectId, grade) ==
  {l \in leaderboard : l.subject_id = subjectId /\ l.grade_level = grade}

\* C23: once submitQuiz has recorded a completed submission of a user on a
\* quiz, the leaderboard holds a row for the user and the quiz's subject and
\* grade whose total_quizzes is the number of the user's completed
\* submissions on quizzes of that subject and grade, and the rank positions
\* of that partition are the distinct values 1..n in the order of descending
\* average percentage
C23_LeaderboardUpdated ==
  Recorded =>
    \A q \in quizzes :
      q.id = req.quizId =>
        LET part == LeaderboardPartition(q.subject_id, q.grade_level)
        IN  /\ \E l \in part :
                 /\ l.user_id = req.user
                 /\ l.total_quizzes =
                      Cardinality(CompletedOf(quiz_submissions, req.user,
                                              q.subject_id, q.grade_level))
            /\ {l.rank_position : l \in part} = 1..Cardinality(part)
            /\ \A a, b \in part :
                 a.average_percentage > b.average_percentage
                   => a.rank_position < b.rank_position

UniqueAttempts ==
  \A s, t \in quiz_submissions :
    (/\ s.user_id = t.user_id
     /\ s.quiz_id = t.quiz_id
     /\ s.attempt_number = t.attempt_number) => s = t

\* C22: however submitQuiz requests interleave, no two stored submissions
\* have the same user, quiz and attempt number, and every request answered
\* 200 stored exactly one row, for its own user and quiz and with the score
\* it reports
C22_OneRowPerSubmission ==
  [][/\ UniqueAttempts'
     /\ (IsSubmit' /\ RequestStep /\ resp'.status = 200) =>
          \E row \in quiz_submissions' \ quiz_submissions :
            /\ quiz_submissions' = quiz_submissions \cup {row}
            /\ row.user_id = req'.user
            /\ row.quiz_id = req'.quizId
            /\ row.total_score = resp'.score * 100]_vars

\* a request was refused at its INSERT because a row of the same user and
\* quiz had been stored after the request had started
C22_Witness ==
  /\ IsSubmit
  /\ req.at = "insert"
  /\ resp.status = 500
  /\ \E row \in quiz_submissions :
       /\ row.user_id = req.user
       /\ row.quiz_id = req.quizId
       /\ row.id >= req.since

IsRefresh == req.op = "refresh"

\* C25: a refresh request that presents the refresh token of the refresh
\* request answered 200 just before it is not answered 200, and the refresh
\* token a 200 response returns is held by an active session of the user
C25_RefreshConsumed ==
  [][/\ (/\ IsRefresh
         /\ resp.status = 200
         /\ IsRefresh'
         /\ RequestStep
         /\ req'.refreshToken = req.refreshToken)
          => resp'.status # 200
     /\ (IsRefresh' /\ RequestStep /\ resp'.status = 200)
          => \E x \in user_sessions' :
               /\ x.refresh_token = resp'.refreshToken
               /\ x.user_id = resp'.refreshToken.userId
               /\ x.is_active]_vars

\* the last request was a login answered 200 whose tokens its holder has
\* not logged out with
LoggedIn ==
  /\ req.op = "login"
  /\ resp.status = 200
  /\ resp.accessToken \notin revoked
  /\ resp.refreshToken \notin revoked

\* C26: a request to a quiz route that follows a successful login and
\* presents the access token the login returned, before that token expires,
\* is not answered 401, and a refresh request that presents the refresh
\* token the login returned, before it expires, is answered 200, whatever
\* logins, refreshes and logouts came before the login
C26_FreshTokensAccepted ==
  [][(LoggedIn /\ RequestStep) =>
       /\ (/\ IsQuizRoute'
           /\ req'.header = Bearer(resp.accessToken)
           /\ resp.accessToken.exp > now)
            => resp'.status # 401
       /\ (/\ IsRefresh'
           /\ req'.refreshToken = resp.refreshToken
           /\ resp.refreshToken.exp > now)
            => resp'.status = 200]_vars

\* C21: with Redis unavailable the server does not exit at its start, and
\* a login, register or profile request that was answered while Redis is
\* unavailable was not answered 500 and was not left waiting, and no request
\* to a quiz route is left waiting
C21_RedisOptional ==
  /\ server # "exited"
  /\ (/\ redisClient # "ready"
      /\ req.op \in {"login", "register", "getProfile"}
      /\ resp # Pending)
       => (resp.status # 500 /\ resp # Stalled)
  /\ IsQuizRoute => resp # Stalled

====
